---- MODULE Spec2Model ----
(***************************************************************************)
(* diff-lint: a model of src/diff-lint.py.                                 *)
(*                                                                         *)
(* Text is modelled as a sequence of characters; a character is a          *)
(* one-character string, except the three control characters ESC, TAB and  *)
(* NL.  A Python list index i is the TLA+ sequence index i + 1.            *)
(***************************************************************************)
EXTENDS Integers, Sequences, FiniteSets, TLC

VARIABLES pc,               \* position of match_lines / the consumer loop
          pep8_stdout,      \* what the pep8 process writes
          pyflakes_stdout,  \* what the pyflakes process writes
          git_stdout,       \* what git diff --color wrote, once it has run
          pep8,             \* self.pep8: line number -> queue of messages
          pyflakes,         \* self.pyflakes
          diff_lines,       \* self.diff_lines
          diff_line,        \* self.diff_line, the raw-line pointer (0-based)
          code_line,        \* self.code_line, the Cursor
          state,            \* self.state, the handler the next pull calls
          stdout,           \* the lines printed so far
          emitted,          \* history: one note per printed line
          call              \* a function called on its own: arguments and result

vars == << pc, pep8_stdout, pyflakes_stdout, git_stdout, pep8, pyflakes,
           diff_lines, diff_line, code_line, state, stdout, emitted, call >>

-----------------------------------------------------------------------------
(* Characters and strings *)

ESC == "ESC"
TAB == "TAB"
NL == "NL"

Digit == {"0", "1", "2", "3", "4", "5", "6", "7", "8", "9"}

DigitValue(c) ==
    CASE c = "0" -> 0 [] c = "1" -> 1 [] c = "2" -> 2 [] c = "3" -> 3
      [] c = "4" -> 4 [] c = "5" -> 5 [] c = "6" -> 6 [] c = "7" -> 7
      [] c = "8" -> 8 [] c = "9" -> 9

DigitChar(d) == << "0", "1", "2", "3", "4", "5", "6", "7", "8", "9" >>[d + 1]

\* int(s) for a non-empty string of decimal digits
RECURSIVE int(_)
int(s) ==
    IF Len(s) = 1 THEN DigitValue(s[1])
    ELSE 10 * int(SubSeq(s, 1, Len(s) - 1)) + DigitValue(s[Len(s)])

\* '%d' % n for n >= 0
RECURSIVE FormatD(_)
FormatD(n) ==
    IF n < 10 THEN << DigitChar(n) >>
    ELSE FormatD(n \div 10) \o << DigitChar(n % 10) >>

\* s[i:i+len(lit)] == lit, with i a 1-based index
HasAt(s, i, lit) ==
    /\ i >= 1
    /\ i + Len(lit) - 1 <= Len(s)
    /\ SubSeq(s, i, i + Len(lit) - 1) = lit

\* first index >= i that does not hold a digit (Len(s) + 1 if none)
RECURSIVE DigitRunEnd(_, _)
DigitRunEnd(s, i) ==
    IF i <= Len(s) /\ s[i] \in Digit THEN DigitRunEnd(s, i + 1) ELSE i

\* s.split(sep) for a one-character separator: the field from `start` to
\* the next occurrence of sep, then the fields after it
RECURSIVE split_from(_, _, _)
split_from(s, sep, start) ==
    LET at == { i \in start..Len(s) : s[i] = sep }
        next == CHOOSE i \in at : \A j \in at : i <= j
    IN  IF at = {} THEN << SubSeq(s, start, Len(s)) >>
        ELSE << SubSeq(s, start, next - 1) >> \o split_from(s, sep, next + 1)

split(s, sep) == split_from(s, sep, 1)

\* s.count(pat), the number of non-overlapping occurrences, for a pattern no
\* two occurrences of which can overlap (as the three patterns counted here)
count(s, pat) == Cardinality({ i \in 1..Len(s) : HasAt(s, i, pat) })

\* s[:n]
Prefix(s, n) == SubSeq(s, 1, IF n < Len(s) THEN n ELSE Len(s))

\* s.ljust(width)
ljust(s, width) ==
    IF width <= Len(s) THEN s
    ELSE s \o [i \in 1..(width - Len(s)) |-> " "]

-----------------------------------------------------------------------------
(* diff_output *)

\* the command line diff_output hands to subprocess.check_output
diff_command(filename, ref) == << "git", "diff", "--color", filename >>

-----------------------------------------------------------------------------
(* parse_output *)

\* PEP8_PARSER.search(line) for ":(\d+):": the start of the leftmost match
\* (0 if there is none).  \d+ takes the whole run of digits after the colon.
PEP8_PARSER(ln) ==
    LET starts == { i \in 1..Len(ln) :
                      /\ ln[i] = ":"
                      /\ DigitRunEnd(ln, i + 1) > i + 1
                      /\ HasAt(ln, DigitRunEnd(ln, i + 1), << ":" >>) }
    IN  IF starts = {} THEN 0
        ELSE CHOOSE i \in starts : \A j \in starts : i <= j

\* match.group(1) of a successful search
PEP8_group1(ln) ==
    LET i == PEP8_PARSER(ln)
    IN  SubSeq(ln, i + 1, DigitRunEnd(ln, i + 1) - 1)

Get(store, k) == IF k \in DOMAIN store THEN store[k] ELSE << >>

\* errors[line_no] = [line]: a later finding replaces the earlier ones
SetDefaultAppend_overwrite(errors, line_no, ln) ==
    [k \in DOMAIN errors \cup {line_no} |->
        IF k = line_no THEN << ln >> ELSE errors[k]]

\* errors.setdefault(line_no, []).append(line)
SetDefaultAppend(errors, line_no, ln) ==
    IF line_no \in DOMAIN errors
    THEN [errors EXCEPT ![line_no] = Append(@, ln)]
    ELSE [k \in DOMAIN errors \cup {line_no} |->
            IF k = line_no THEN << ln >> ELSE errors[k]]

\* the loop of parse_output skipping a line that does not match
RECURSIVE parse_loop_skip(_, _, _)
parse_loop_skip(lines, i, errors) ==
    IF i > Len(lines) THEN [raised |-> FALSE, errors |-> errors]
    ELSE IF lines[i] = << >> THEN parse_loop_skip(lines, i + 1, errors)
    ELSE IF PEP8_PARSER(lines[i]) = 0 THEN parse_loop_skip(lines, i + 1, errors)
    ELSE parse_loop_skip(lines, i + 1,
                         SetDefaultAppend(errors, int(PEP8_group1(lines[i])), lines[i]))

\* the loop of parse_output over lines[i..]; raised is the failed assert
RECURSIVE parse_loop(_, _, _)
parse_loop(lines, i, errors) ==
    IF i > Len(lines) THEN [raised |-> FALSE, errors |-> errors]
    ELSE IF lines[i] = << >> THEN parse_loop(lines, i + 1, errors)
    ELSE IF PEP8_PARSER(lines[i]) = 0 THEN [raised |-> TRUE, errors |-> errors]
    ELSE parse_loop(lines, i + 1,
                    SetDefaultAppend(errors, int(PEP8_group1(lines[i])), lines[i]))

EmptyStore == [k \in {} |-> << >>]

parse_output(output) == parse_loop(split(output, NL), 1, EmptyStore)

-----------------------------------------------------------------------------
(* The formatter *)

COLORS(color) ==
    CASE color = "cyan" -> 36 [] color = "green" -> 32
      [] color = "red" -> 31 [] color = "yellow" -> 33

color_block(text, color) ==
    << ESC, "[" >> \o FormatD(color) \o << "m" >> \o text \o << ESC, "[", "m" >>

TruncateAt == 70
PaneWidth == 80

two_pane_padding(text) ==
    5 * count(text, << ESC, "[", "3" >>)
      + 3 * count(text, << ESC, "[", "m" >>)
      - 6 * count(text, << TAB >>)

\* two_pane counting the escape sequences and tabs of the 70 characters it shows
two_pane_counts_shown(text, msg, color) ==
    ljust(Prefix(text, TruncateAt),
          PaneWidth + two_pane_padding(Prefix(text, TruncateAt)))
      \o << " " >> \o color_block(msg, COLORS(color))

two_pane(text, msg, color) ==
    ljust(Prefix(text, TruncateAt), PaneWidth + two_pane_padding(text))
      \o << " " >> \o color_block(msg, COLORS(color))

warning_line(text, warning) == two_pane(text, warning, "yellow")

error_line(text, error) == two_pane(text, error, "red")

-----------------------------------------------------------------------------
(* DiffStateMachine *)

\* HEADER_PARSER.match(line) for "^.{5}@@ -\d+,\d+ \+(\d+),\d+ @@.{3}$":
\* the positions reached by the pattern's pieces, left to right.  Every \d+
\* is followed by a character that is no digit, so each takes a whole run.
HEADER_PARSER(ln) ==
    LET a == 6                          \* after .{5}
        b == a + 4                      \* after "@@ -"
        c == DigitRunEnd(ln, b)         \* after \d+
        d == DigitRunEnd(ln, c + 1)     \* after "," \d+
        e == DigitRunEnd(ln, d + 2)     \* after " +" (\d+)
        f == DigitRunEnd(ln, e + 1)     \* after "," \d+
        ok == /\ Len(ln) >= 5
              /\ HasAt(ln, a, << "@", "@", " ", "-" >>)
              /\ c > b
              /\ HasAt(ln, c, << "," >>)
              /\ d > c + 1
              /\ HasAt(ln, d, << " ", "+" >>)
              /\ e > d + 2
              /\ HasAt(ln, e, << "," >>)
              /\ f > e + 1
              /\ HasAt(ln, f, << " ", "@", "@" >>)
              /\ Len(ln) = f + 2 + 3    \* .{3}$
    IN  [matched |-> ok,
         group1 |-> IF ok THEN SubSeq(ln, d + 2, e - 1) ELSE << >>]

\* the fields of the machine, as the handlers see them
Self ==
    [state |-> state, diff_lines |-> diff_lines, diff_line |-> diff_line,
     code_line |-> code_line, pep8 |-> pep8, pyflakes |-> pyflakes]

line(self) == self.diff_lines[self.diff_line + 1]

\* the note kept in the history for one returned item
Note(by, self, kind, key, msg) ==
    [by |-> by, idx |-> self.diff_line, cur |-> self.code_line,
     kind |-> kind, key |-> key, msg |-> msg]

\* store[k].pop() taking the last item instead of the first
pop_last(store, k) ==
    [item |-> store[k][Len(store[k])],
     store |-> [store EXCEPT ![k] = SubSeq(@, 1, Len(@) - 1)]]

\* store[k].pop(0): the item removed and the store afterwards
pop0(store, k) ==
    [item |-> Head(store[k]), store |-> [store EXCEPT ![k] = Tail(@)]]

RemovedPrefix == << ESC, "[", "3", "1", "m", "-" >>

IsRemoved(ln) == Prefix(ln, 6) = RemovedPrefix

\* Each handler maps the machine to: raised (an exception left the handler),
\* self (the machine afterwards), ret (the returned item), note (its history).
\* diff_top handing over to header one line early
diff_top_early(self) ==
    [raised |-> FALSE,
     self |-> [self EXCEPT !.state = IF self.diff_line = 2 THEN "header" ELSE @,
                           !.diff_line = @ + 1],
     ret |-> line(self),
     note |-> Note("diff_top", self, "line", 0, << >>)]

\* diff_top handing over to code_lines directly
diff_top_skips_header(self) ==
    [raised |-> FALSE,
     self |-> [self EXCEPT !.state = IF self.diff_line = 3 THEN "code_lines" ELSE @,
                           !.diff_line = @ + 1],
     ret |-> line(self),
     note |-> Note("diff_top", self, "line", 0, << >>)]

diff_top(self) ==
    [raised |-> FALSE,
     self |-> [self EXCEPT !.state = IF self.diff_line = 3 THEN "header" ELSE @,
                           !.diff_line = @ + 1],
     ret |-> line(self),
     note |-> Note("diff_top", self, "line", 0, << >>)]

\* header without its assert: a line that does not match is passed through
header_no_assert(self) ==
    LET parsed == HEADER_PARSER(line(self))
    IN  [raised |-> FALSE,
         self |-> [self EXCEPT !.code_line = IF parsed.matched
                                             THEN int(parsed.group1) ELSE @,
                               !.state = "code_lines",
                               !.diff_line = @ + 1],
         ret |-> line(self),
         note |-> Note("header", self, "line", 0, << >>)]

\* header without its `return line`: the caller prints None
header_no_return(self) ==
    LET parsed == HEADER_PARSER(line(self))
    IN  IF ~parsed.matched
        THEN [raised |-> TRUE, self |-> self, ret |-> << >>,
              note |-> Note("header", self, "none", 0, << >>)]
        ELSE [raised |-> FALSE,
              self |-> [self EXCEPT !.code_line = int(parsed.group1),
                                    !.state = "code_lines",
                                    !.diff_line = @ + 1],
              ret |-> << "N", "o", "n", "e" >>,
              note |-> Note("header", self, "line", 0, << >>)]

header(self) ==
    LET parsed == HEADER_PARSER(line(self))
    IN  IF ~parsed.matched
        THEN [raised |-> TRUE, self |-> self, ret |-> << >>,
              note |-> Note("header", self, "none", 0, << >>)]
        ELSE [raised |-> FALSE,
              self |-> [self EXCEPT !.code_line = int(parsed.group1),
                                    !.state = "code_lines",
                                    !.diff_line = @ + 1],
              ret |-> line(self),
              note |-> Note("header", self, "line", 0, << >>)]

\* code_lines looking for findings before it looks for the removed-line prefix
code_lines_annotates_removed(self) ==
    IF self.diff_line >= Len(self.diff_lines)
    THEN [raised |-> TRUE, self |-> self, ret |-> << >>,
          note |-> Note("code_lines", self, "none", 0, << >>)]
    ELSE IF Get(self.pyflakes, self.code_line) # << >>
    THEN [raised |-> FALSE,
          self |-> [self EXCEPT !.state = "continue_msgs",
                                !.pyflakes = pop0(@, self.code_line).store],
          ret |-> error_line(line(self), pop0(self.pyflakes, self.code_line).item),
          note |-> Note("code_lines", self, "error", self.code_line,
                        pop0(self.pyflakes, self.code_line).item)]
    ELSE IF Get(self.pep8, self.code_line) # << >>
    THEN [raised |-> FALSE,
          self |-> [self EXCEPT !.state = "continue_msgs",
                                !.pep8 = pop0(@, self.code_line).store],
          ret |-> warning_line(line(self), pop0(self.pep8, self.code_line).item),
          note |-> Note("code_lines", self, "warning", self.code_line,
                        pop0(self.pep8, self.code_line).item)]
    ELSE IF IsRemoved(line(self))
    THEN [raised |-> FALSE,
          self |-> [self EXCEPT !.diff_line = @ + 1],
          ret |-> line(self),
          note |-> Note("code_lines", self, "removed", 0, << >>)]
    ELSE [raised |-> FALSE,
          self |-> [self EXCEPT !.diff_line = @ + 1, !.code_line = @ + 1],
          ret |-> line(self),
          note |-> Note("code_lines", self, "line", 0, << >>)]

\* code_lines reading the head of a queue ([0]) without removing it (pop(0))
code_lines_peek(self) ==
    IF self.diff_line >= Len(self.diff_lines)
    THEN [raised |-> TRUE, self |-> self, ret |-> << >>,
          note |-> Note("code_lines", self, "none", 0, << >>)]
    ELSE IF IsRemoved(line(self))
    THEN [raised |-> FALSE,
          self |-> [self EXCEPT !.diff_line = @ + 1],
          ret |-> line(self),
          note |-> Note("code_lines", self, "removed", 0, << >>)]
    ELSE IF Get(self.pyflakes, self.code_line) # << >>
    THEN [raised |-> FALSE,
          self |-> [self EXCEPT !.state = "continue_msgs"],
          ret |-> error_line(line(self), pop0(self.pyflakes, self.code_line).item),
          note |-> Note("code_lines", self, "error", self.code_line,
                        pop0(self.pyflakes, self.code_line).item)]
    ELSE IF Get(self.pep8, self.code_line) # << >>
    THEN [raised |-> FALSE,
          self |-> [self EXCEPT !.state = "continue_msgs"],
          ret |-> warning_line(line(self), pop0(self.pep8, self.code_line).item),
          note |-> Note("code_lines", self, "warning", self.code_line,
                        pop0(self.pep8, self.code_line).item)]
    ELSE [raised |-> FALSE,
          self |-> [self EXCEPT !.diff_line = @ + 1, !.code_line = @ + 1],
          ret |-> line(self),
          note |-> Note("code_lines", self, "line", 0, << >>)]

\* code_lines advancing the Cursor on a removed line too
code_lines_removed_counts(self) ==
    IF self.diff_line >= Len(self.diff_lines)
    THEN [raised |-> TRUE, self |-> self, ret |-> << >>,
          note |-> Note("code_lines", self, "none", 0, << >>)]
    ELSE IF IsRemoved(line(self))
    THEN [raised |-> FALSE,
          self |-> [self EXCEPT !.diff_line = @ + 1, !.code_line = @ + 1],
          ret |-> line(self),
          note |-> Note("code_lines", self, "removed", 0, << >>)]
    ELSE IF Get(self.pyflakes, self.code_line) # << >>
    THEN [raised |-> FALSE,
          self |-> [self EXCEPT !.state = "continue_msgs",
                                !.pyflakes = pop0(@, self.code_line).store],
          ret |-> error_line(line(self), pop0(self.pyflakes, self.code_line).item),
          note |-> Note("code_lines", self, "error", self.code_line,
                        pop0(self.pyflakes, self.code_line).item)]
    ELSE IF Get(self.pep8, self.code_line) # << >>
    THEN [raised |-> FALSE,
          self |-> [self EXCEPT !.state = "continue_msgs",
                                !.pep8 = pop0(@, self.code_line).store],
          ret |-> warning_line(line(self), pop0(self.pep8, self.code_line).item),
          note |-> Note("code_lines", self, "warning", self.code_line,
                        pop0(self.pep8, self.code_line).item)]
    ELSE [raised |-> FALSE,
          self |-> [self EXCEPT !.diff_line = @ + 1, !.code_line = @ + 1],
          ret |-> line(self),
          note |-> Note("code_lines", self, "line", 0, << >>)]

\* code_lines asking pep8 before pyflakes
code_lines_pep8_first(self) ==
    IF self.diff_line >= Len(self.diff_lines)
    THEN [raised |-> TRUE, self |-> self, ret |-> << >>,
          note |-> Note("code_lines", self, "none", 0, << >>)]
    ELSE IF IsRemoved(line(self))
    THEN [raised |-> FALSE,
          self |-> [self EXCEPT !.diff_line = @ + 1],
          ret |-> line(self),
          note |-> Note("code_lines", self, "removed", 0, << >>)]
    ELSE IF Get(self.pep8, self.code_line) # << >>
    THEN [raised |-> FALSE,
          self |-> [self EXCEPT !.state = "continue_msgs",
                                !.pep8 = pop0(@, self.code_line).store],
          ret |-> warning_line(line(self), pop0(self.pep8, self.code_line).item),
          note |-> Note("code_lines", self, "warning", self.code_line,
                        pop0(self.pep8, self.code_line).item)]
    ELSE IF Get(self.pyflakes, self.code_line) # << >>
    THEN [raised |-> FALSE,
          self |-> [self EXCEPT !.state = "continue_msgs",
                                !.pyflakes = pop0(@, self.code_line).store],
          ret |-> error_line(line(self), pop0(self.pyflakes, self.code_line).item),
          note |-> Note("code_lines", self, "error", self.code_line,
                        pop0(self.pyflakes, self.code_line).item)]
    ELSE [raised |-> FALSE,
          self |-> [self EXCEPT !.diff_line = @ + 1, !.code_line = @ + 1],
          ret |-> line(self),
          note |-> Note("code_lines", self, "line", 0, << >>)]

code_lines(self) ==
    IF self.diff_line >= Len(self.diff_lines)
    THEN \* self.line() raises IndexError
         [raised |-> TRUE, self |-> self, ret |-> << >>,
          note |-> Note("code_lines", self, "none", 0, << >>)]
    ELSE IF IsRemoved(line(self))
    THEN [raised |-> FALSE,
          self |-> [self EXCEPT !.diff_line = @ + 1],
          ret |-> line(self),
          note |-> Note("code_lines", self, "removed", 0, << >>)]
    ELSE IF Get(self.pyflakes, self.code_line) # << >>
    THEN [raised |-> FALSE,
          self |-> [self EXCEPT !.state = "continue_msgs",
                                !.pyflakes = pop0(@, self.code_line).store],
          ret |-> error_line(line(self), pop0(self.pyflakes, self.code_line).item),
          note |-> Note("code_lines", self, "error", self.code_line,
                        pop0(self.pyflakes, self.code_line).item)]
    ELSE IF Get(self.pep8, self.code_line) # << >>
    THEN [raised |-> FALSE,
          self |-> [self EXCEPT !.state = "continue_msgs",
                                !.pep8 = pop0(@, self.code_line).store],
          ret |-> warning_line(line(self), pop0(self.pep8, self.code_line).item),
          note |-> Note("code_lines", self, "warning", self.code_line,
                        pop0(self.pep8, self.code_line).item)]
    ELSE [raised |-> FALSE,
          self |-> [self EXCEPT !.diff_line = @ + 1, !.code_line = @ + 1],
          ret |-> line(self),
          note |-> Note("code_lines", self, "line", 0, << >>)]

\* continue_msgs passing the current line, not '', as the text of its annotations
continue_msgs_repeats_text(self) ==
    IF Get(self.pyflakes, self.code_line) # << >>
    THEN [raised |-> FALSE,
          self |-> [self EXCEPT !.pyflakes = pop0(@, self.code_line).store],
          ret |-> error_line(line(self), pop0(self.pyflakes, self.code_line).item),
          note |-> Note("continue_msgs", self, "error", self.code_line,
                        pop0(self.pyflakes, self.code_line).item)]
    ELSE IF Get(self.pep8, self.code_line) # << >>
    THEN [raised |-> FALSE,
          self |-> [self EXCEPT !.pep8 = pop0(@, self.code_line).store],
          ret |-> warning_line(line(self), pop0(self.pep8, self.code_line).item),
          note |-> Note("continue_msgs", self, "warning", self.code_line,
                        pop0(self.pep8, self.code_line).item)]
    ELSE code_lines([self EXCEPT !.diff_line = @ + 1,
                                 !.code_line = @ + 1,
                                 !.state = "code_lines"])

\* continue_msgs without `self.code_line += 1` when the line is drained
continue_msgs_cursor_kept(self) ==
    IF Get(self.pyflakes, self.code_line) # << >>
    THEN [raised |-> FALSE,
          self |-> [self EXCEPT !.pyflakes = pop0(@, self.code_line).store],
          ret |-> error_line(<< >>, pop0(self.pyflakes, self.code_line).item),
          note |-> Note("continue_msgs", self, "error", self.code_line,
                        pop0(self.pyflakes, self.code_line).item)]
    ELSE IF Get(self.pep8, self.code_line) # << >>
    THEN [raised |-> FALSE,
          self |-> [self EXCEPT !.pep8 = pop0(@, self.code_line).store],
          ret |-> warning_line(<< >>, pop0(self.pep8, self.code_line).item),
          note |-> Note("continue_msgs", self, "warning", self.code_line,
                        pop0(self.pep8, self.code_line).item)]
    ELSE code_lines([self EXCEPT !.diff_line = @ + 1,
                                 !.state = "code_lines"])

continue_msgs(self) ==
    IF Get(self.pyflakes, self.code_line) # << >>
    THEN [raised |-> FALSE,
          self |-> [self EXCEPT !.pyflakes = pop0(@, self.code_line).store],
          ret |-> error_line(<< >>, pop0(self.pyflakes, self.code_line).item),
          note |-> Note("continue_msgs", self, "error", self.code_line,
                        pop0(self.pyflakes, self.code_line).item)]
    ELSE IF Get(self.pep8, self.code_line) # << >>
    THEN [raised |-> FALSE,
          self |-> [self EXCEPT !.pep8 = pop0(@, self.code_line).store],
          ret |-> warning_line(<< >>, pop0(self.pep8, self.code_line).item),
          note |-> Note("continue_msgs", self, "warning", self.code_line,
                        pop0(self.pep8, self.code_line).item)]
    ELSE code_lines([self EXCEPT !.diff_line = @ + 1,
                                 !.code_line = @ + 1,
                                 !.state = "code_lines"])

-----------------------------------------------------------------------------
(* The inputs: what the three processes may write *)

MaxBody == 3        \* diff lines after the first hunk header
MaxFindings == 2    \* lines written by the two checkers together

\* s1 NL s2 NL ... sn, the text that splits into lines
RECURSIVE Join(_)
Join(lines) ==
    IF lines = << >> THEN << >>
    ELSE IF Len(lines) = 1 THEN lines[1]
    ELSE lines[1] \o << NL >> \o Join(Tail(lines))

\* every line ended by NL, as a checker writes them
RECURSIVE Terminated(_)
Terminated(lines) ==
    IF lines = << >> THEN << >>
    ELSE lines[1] \o << NL >> \o Terminated(Tail(lines))

FindingLines ==
    { << "f", ":", "2", ":", " ", "E" >>,            \* f:2: E
      << "f", ":", "2", ":", "1", ":", " ", "W" >>,  \* f:2:1: W
      << "f", ":", "3", ":", " ", "E" >>,            \* f:3: E
      << "f", ":", " ", "x" >> }                     \* no :<digits>:

CheckerOutputs ==
    { Terminated(s) : s \in UNION { [1..n -> FindingLines] : n \in 0..MaxFindings } }

Preamble ==
    << << "d", "i", "f", "f" >>, << "i", "n", "d", "e", "x" >>,
       << "-", "-", "-" >>, << "+", "+", "+" >> >>

\* ESC[36m@@ -1,2 +2,3 @@ESC[m
FirstHunk ==
    << ESC, "[", "3", "6", "m", "@", "@", " ", "-", "1", ",", "2", " ",
       "+", "2", ",", "3", " ", "@", "@", ESC, "[", "m" >>

\* ESC[36m@@ -8,1 +9,1 @@ESC[m
NextHunk ==
    << ESC, "[", "3", "6", "m", "@", "@", " ", "-", "8", ",", "1", " ",
       "+", "9", ",", "1", " ", "@", "@", ESC, "[", "m" >>

\* a hunk header followed by the name of the enclosing function
HunkWithContext == FirstHunk \o << " ", "f" >>

RemovedLine == << ESC, "[", "3", "1", "m", "-", "a", ESC, "[", "m" >>

AddedLine == << ESC, "[", "3", "2", "m", "+", "b", ESC, "[", "m" >>

BodyLines == { RemovedLine, AddedLine, NextHunk }

\* the bodies of at most n lines
Bodies(n) == UNION { [1..k -> BodyLines] : k \in 0..n }

\* What git may write, as lines: nothing, a cut-off preamble, a diff whose
\* first hunk header the machine accepts, or one whose header it rejects (what
\* follows a rejected header is never read: one line of it is enough).
DiffLineLists ==
    { << << >> >> }
      \cup { SubSeq(Preamble, 1, n) : n \in 1..Len(Preamble) }
      \cup { Preamble \o << FirstHunk >> \o b : b \in Bodies(MaxBody) }
      \cup { Preamble \o << HunkWithContext >> \o b : b \in Bodies(1) }

DiffOutputs == { Join(d) : d \in DiffLineLists }

-----------------------------------------------------------------------------
(* match_lines and the consumer loop *)

\* no function is being called on its own
NoCall == [fn |-> "none"]

Init ==
    /\ pc = "pep8_output"
    /\ pep8_stdout \in CheckerOutputs
    /\ pyflakes_stdout \in CheckerOutputs
    /\ Len(split(pep8_stdout, NL)) + Len(split(pyflakes_stdout, NL)) - 2
         <= MaxFindings
    /\ git_stdout = << >>
    /\ pep8 = EmptyStore
    /\ pyflakes = EmptyStore
    /\ diff_lines = << >>
    /\ diff_line = 0
    /\ code_line = 0
    /\ state = "none"
    /\ stdout = << >>
    /\ emitted = << >>
    /\ call = NoCall

Pep8Output ==
    /\ pc = "pep8_output"
    /\ LET r == parse_output(pep8_stdout)
       IN  IF r.raised
           THEN pc' = "aborted" /\ UNCHANGED pep8
           ELSE pc' = "pyflakes_output" /\ pep8' = r.errors
    /\ UNCHANGED << pep8_stdout, pyflakes_stdout, git_stdout, pyflakes,
                    diff_lines, diff_line, code_line, state, stdout, emitted,
                    call >>

PyflakesOutput ==
    /\ pc = "pyflakes_output"
    /\ LET r == parse_output(pyflakes_stdout)
       IN  IF r.raised
           THEN pc' = "aborted" /\ UNCHANGED pyflakes
           ELSE pc' = "diff_output" /\ pyflakes' = r.errors
    /\ UNCHANGED << pep8_stdout, pyflakes_stdout, git_stdout, pep8,
                    diff_lines, diff_line, code_line, state, stdout, emitted,
                    call >>

\* diff_output runs git and splits what it wrote; then DiffStateMachine.__init__
DiffOutput ==
    /\ pc = "diff_output"
    /\ pc' = "iter"
    /\ \E diff \in DiffOutputs :
         /\ git_stdout' = diff
         /\ diff_lines' = split(diff, NL)
    /\ state' = "diff_top"
    /\ diff_line' = 0
    /\ code_line' = 0
    /\ UNCHANGED << pep8_stdout, pyflakes_stdout, pep8, pyflakes, stdout, emitted,
                    call >>

\* one pull: `yield self.state()` and the consumer's print
Pull(r) ==
    /\ state' = r.self.state
    /\ diff_line' = r.self.diff_line
    /\ code_line' = r.self.code_line
    /\ pep8' = r.self.pep8
    /\ pyflakes' = r.self.pyflakes
    /\ IF r.raised
       THEN pc' = "aborted" /\ UNCHANGED << stdout, emitted >>
       ELSE /\ pc' = pc
            /\ stdout' = Append(stdout, r.ret)
            /\ emitted' = Append(emitted, r.note)
    /\ UNCHANGED << pep8_stdout, pyflakes_stdout, git_stdout, diff_lines, call >>

Pulling(s) == pc = "iter" /\ diff_line < Len(diff_lines) /\ state = s

DiffTop == Pulling("diff_top") /\ Pull(diff_top(Self))

Header == Pulling("header") /\ Pull(header(Self))

CodeLines == Pulling("code_lines") /\ Pull(code_lines(Self))

ContinueMsgs == Pulling("continue_msgs") /\ Pull(continue_msgs(Self))

\* the while condition of __iter__ fails: match_lines returns
Exhausted ==
    /\ pc = "iter"
    /\ diff_line >= Len(diff_lines)
    /\ pc' = "done"
    /\ UNCHANGED << pep8_stdout, pyflakes_stdout, git_stdout, pep8, pyflakes,
                    diff_lines, diff_line, code_line, state, stdout, emitted,
                    call >>

Next ==
    \/ Pep8Output
    \/ PyflakesOutput
    \/ DiffOutput
    \/ DiffTop
    \/ Header
    \/ CodeLines
    \/ ContinueMsgs
    \/ Exhausted

Spec == Init /\ [][Next]_vars

-----------------------------------------------------------------------------
(* The functions called on their own: diff_output's command line and the
   formatter, on arguments the walk of the small diffs above does not reach *)

MaxTabs == 2
MaxMarks == 1
MaxFill == 72

Filenames == {"a.py", "lib/b.py"}
Refs == {"HEAD", "HEAD~1", "master"}

Rep(c, n) == [i \in 1..n |-> c]

RECURSIVE Times(_, _)
Times(s, n) == IF n = 0 THEN << >> ELSE s \o Times(s, n - 1)

\* a diff line: tabs, colour switches and colour resets, and n other characters
\* before or after them
Texts ==
    { IF fillFirst THEN Rep("x", n) \o marks ELSE marks \o Rep("x", n) :
        fillFirst \in BOOLEAN, n \in 0..MaxFill,
        marks \in { Times(<< TAB >>, t) \o Times(<< ESC, "[", "3", "2", "m" >>, c)
                      \o Times(<< ESC, "[", "m" >>, r) :
                    t \in 0..MaxTabs, c \in 0..MaxMarks, r \in 0..MaxMarks } }

Messages == { << "f", ":", "2", ":", " ", "E" >>, << >> }

TwoPaneCalls ==
    [fn : {"two_pane"}, text : Texts, msg : Messages, color : {"red", "yellow"},
     ret : {<< >>}, returned : {FALSE}]

DiffOutputCalls ==
    [fn : {"diff_output"}, filename : Filenames, ref : Refs,
     argv : {<< >>}, returned : {FALSE}]

CallsInit ==
    /\ pc = "call"
    /\ call \in TwoPaneCalls \cup DiffOutputCalls
    /\ pep8_stdout = << >>
    /\ pyflakes_stdout = << >>
    /\ git_stdout = << >>
    /\ pep8 = EmptyStore
    /\ pyflakes = EmptyStore
    /\ diff_lines = << >>
    /\ diff_line = 0
    /\ code_line = 0
    /\ state = "none"
    /\ stdout = << >>
    /\ emitted = << >>

Machine == << pc, pep8_stdout, pyflakes_stdout, git_stdout, pep8, pyflakes,
              diff_lines, diff_line, code_line, state, stdout, emitted >>

TwoPane ==
    /\ pc = "call"
    /\ call.fn = "two_pane"
    /\ ~call.returned
    /\ call' = [call EXCEPT !.ret = two_pane(call.text, call.msg, call.color),
                            !.returned = TRUE]
    /\ UNCHANGED Machine

DiffCommand ==
    /\ pc = "call"
    /\ call.fn = "diff_output"
    /\ ~call.returned
    /\ call' = [call EXCEPT !.argv = diff_command(call.filename, call.ref),
                            !.returned = TRUE]
    /\ UNCHANGED Machine

CallsNext == TwoPane \/ DiffCommand

SpecCalls == CallsInit /\ [][CallsNext]_vars

-----------------------------------------------------------------------------
(* Vocabulary of the properties *)

\* the stores as parse_output built them
Pep8Parsed == parse_output(pep8_stdout).errors
PyflakesParsed == parse_output(pyflakes_stdout).errors

Constructed == state # "none"

IsAnnotation(n) == n.kind \in {"error", "warning"}

ColorOf(n) == IF n.kind = "error" THEN COLORS("red") ELSE COLORS("yellow")

\* item ends with the colour block of msg, after one space
Carries(item, msg, color) ==
    LET tail == << " " >> \o color_block(msg, color)
    IN  /\ Len(item) >= Len(tail)
        /\ SubSeq(item, Len(item) - Len(tail) + 1, Len(item)) = tail

\* what precedes the separating space of an annotation
TextColumn(item, msg, color) ==
    SubSeq(item, 1, Len(item) - Len(color_block(msg, color)) - 1)

Blank(s) == \A i \in 1..Len(s) : s[i] = " "

\* col is text cut to its first 70 characters, then spaces
ShowsText(col, text) ==
    LET shown == IF Len(text) < TruncateAt THEN Len(text) ELSE TruncateAt
    IN  /\ Len(col) >= shown
        /\ SubSeq(col, 1, shown) = SubSeq(text, 1, shown)
        /\ Blank(SubSeq(col, shown + 1, Len(col)))

\* the k-th printed item is the annotation its note describes
PrintedAnnotation(k) ==
    /\ IsAnnotation(emitted[k])
    /\ Carries(stdout[k], emitted[k].msg, ColorOf(emitted[k]))

\* the k-th printed item is the diff line it was produced from, unmodified
PrintedVerbatim(k) ==
    /\ ~IsAnnotation(emitted[k])
    /\ stdout[k] = diff_lines[emitted[k].idx + 1]

-----------------------------------------------------------------------------
(* C1: round trip on a clean diff.  When both stores are built empty and the
   walk ends without an abort, the printed sequence is the diff line sequence:
   same length, same lines, same order. *)
C1_CleanRoundTrip ==
    (/\ pc = "done"
     /\ Pep8Parsed = EmptyStore
     /\ PyflakesParsed = EmptyStore)
      => stdout = diff_lines

\* a clean diff with a hunk, a removed line and an added line, walked to the end
C1_Witness ==
    /\ pc = "done"
    /\ Pep8Parsed = EmptyStore
    /\ PyflakesParsed = EmptyStore
    /\ Len(stdout) >= Len(Preamble) + 3
    /\ \E k \in DOMAIN stdout : stdout[k] = RemovedLine
    /\ \E k \in DOMAIN stdout : stdout[k] = AddedLine

-----------------------------------------------------------------------------
\* the stores were built with exactly one error and one warning for line L
OneEach(L) ==
    /\ Len(Get(PyflakesParsed, L)) = 1
    /\ Len(Get(Pep8Parsed, L)) = 1

(* C2, as stated: a content line at Cursor L with one error and one warning
   yields three separate items, the content line unmodified, then the error
   annotation, then the warning annotation. *)
C2_ThreeItems ==
    \A w \in DOMAIN emitted :
        (emitted[w].kind = "warning" /\ OneEach(emitted[w].cur))
          => /\ w >= 3
             /\ PrintedVerbatim(w - 2)
             /\ emitted[w - 2].idx = emitted[w].idx
             /\ emitted[w - 1].kind = "error"
             /\ PrintedAnnotation(w - 1)
             /\ PrintedAnnotation(w)

(* C2, amended: a content line at Cursor L with one error and one warning
   yields exactly two items and no separate copy of the line: the error
   annotation, whose text column is the line (its first 70 characters, padded
   with spaces) and which carries the error message, then the warning
   annotation, whose text column is blank and which carries the warning
   message.  The pull after them moves the Cursor to L+1 before the next diff
   line is evaluated (and aborts when there is no next line). *)
C2_TwoAnnotations ==
    \A w \in DOMAIN emitted :
        (emitted[w].kind = "warning" /\ OneEach(emitted[w].cur))
          => LET L == emitted[w].cur
                 i == emitted[w].idx
                 e == emitted[w - 1]
             IN  /\ w >= 2
                 /\ e.by = "code_lines" /\ e.kind = "error"
                 /\ e.idx = i /\ e.cur = L
                 /\ e.msg = PyflakesParsed[L][1]
                 /\ PrintedAnnotation(w - 1)
                 /\ ShowsText(TextColumn(stdout[w - 1], e.msg, COLORS("red")),
                              diff_lines[i + 1])
                 /\ emitted[w].by = "continue_msgs"
                 /\ emitted[w].msg = Pep8Parsed[L][1]
                 /\ PrintedAnnotation(w)
                 /\ TextColumn(stdout[w], emitted[w].msg, COLORS("yellow"))
                      = [c \in 1..PaneWidth |-> " "]
                 /\ \A k \in DOMAIN emitted :
                        emitted[k].idx = i => k \in {w - 1, w}
                 /\ Len(emitted) > w
                      => emitted[w + 1].idx = i + 1 /\ emitted[w + 1].cur = L + 1
                 /\ (Len(emitted) = w /\ state # "continue_msgs")
                      => pc = "aborted" /\ code_line = L + 1 /\ diff_line = i + 1

\* both annotations of such a line are out and the next diff line was evaluated
C2_Witness ==
    \E w \in DOMAIN emitted :
        /\ emitted[w].kind = "warning"
        /\ OneEach(emitted[w].cur)
        /\ Len(emitted) > w

(* C3: severity priority.  No warning for a line number is emitted before an
   error for the same line number, and a step that emits a warning for line L
   finds no error pending for L. *)
C3_ErrorsFirst ==
    /\ [](\A j, k \in DOMAIN emitted :
            (j < k /\ emitted[j].kind = "warning" /\ emitted[k].kind = "error")
              => emitted[j].key # emitted[k].key)
    /\ [][(Len(emitted') = Len(emitted) + 1
             /\ emitted'[Len(emitted')].kind = "warning")
            => /\ Get(pyflakes, emitted'[Len(emitted')].key) = << >>
               /\ pyflakes' = pyflakes
               /\ pep8[emitted'[Len(emitted')].key] # << >>]_vars

\* an error and then a warning were emitted for one line number
C3_Witness ==
    \E j, k \in DOMAIN emitted :
        /\ j < k
        /\ emitted[j].kind = "error"
        /\ emitted[k].kind = "warning"
        /\ emitted[j].key = emitted[k].key

-----------------------------------------------------------------------------
\* the line number a well-formed finding line is stored under
LineNoOf(ln) == int(PEP8_group1(ln))

\* per line a checker wrote, the line number it reports (0 for no finding)
LineNos(lines) ==
    [k \in DOMAIN lines |->
        IF lines[k] # << >> /\ PEP8_PARSER(lines[k]) # 0
        THEN LineNoOf(lines[k]) ELSE 0]

\* among the lines a checker wrote, the findings for line L, in report order
Reported(lines, nos, L) ==
    LET ForL(k) == nos[k] = L
        sel == SelectSeq([k \in DOMAIN lines |-> k], ForL)
    IN  [j \in 1..Len(sel) |-> lines[sel[j]]]

\* the messages of the annotations of one kind emitted for line L, in order
EmittedMsgs(kind, L) ==
    LET ForL(n) == n.kind = kind /\ n.key = L
        sel == SelectSeq(emitted, ForL)
    IN  [k \in 1..Len(sel) |-> sel[k].msg]

KnownKeys ==
    DOMAIN pep8 \cup DOMAIN pyflakes
      \cup { emitted[k].key : k \in { j \in DOMAIN emitted : IsAnnotation(emitted[j]) } }

(* C4: FIFO within a severity.  For each checker and line number, the
   messages emitted so far followed by the queue still held are the findings
   the checker reported for that line, in report order; every annotation
   printed carries the message popped for it. *)
C4_Fifo ==
    Constructed =>
      LET errors == split(pyflakes_stdout, NL)
          error_nos == LineNos(errors)
          warnings == split(pep8_stdout, NL)
          warning_nos == LineNos(warnings)
      IN  /\ \A L \in KnownKeys :
               /\ EmittedMsgs("error", L) \o Get(pyflakes, L)
                    = Reported(errors, error_nos, L)
               /\ EmittedMsgs("warning", L) \o Get(pep8, L)
                    = Reported(warnings, warning_nos, L)
          /\ \A k \in DOMAIN emitted :
               IsAnnotation(emitted[k]) => PrintedAnnotation(k)

\* one checker reported M1 then M2 for a line, and both were emitted
C4_Witness ==
    \E j, k \in DOMAIN emitted :
        /\ j < k
        /\ IsAnnotation(emitted[j])
        /\ emitted[j].kind = emitted[k].kind
        /\ emitted[j].key = emitted[k].key
        /\ emitted[j].msg # emitted[k].msg

-----------------------------------------------------------------------------
\* the history's note of the header state, once it has run
HeaderNotes == { k \in DOMAIN emitted : emitted[k].by = "header" }

HeaderIdx == emitted[CHOOSE k \in HeaderNotes : TRUE].idx

Seed == int(HEADER_PARSER(diff_lines[HeaderIdx + 1]).group1)

\* the non-removed diff lines at the (0-based) indices from .. to - 1
NonRemoved(from, to) ==
    Cardinality({ i \in from..(to - 1) : ~IsRemoved(diff_lines[i + 1]) })

InBody(n) == n.by \in {"code_lines", "continue_msgs"}

(* C5: Cursor monotonicity.  Once the header has seeded the Cursor, the
   Cursor is the seed plus the number of non-removed diff lines consumed since
   the header, and every item was produced with the Cursor at the seed plus
   the number of non-removed lines before its diff line: one more per
   non-removed line, with or without findings, and no more for a removed
   line. *)
C5_CursorMonotone ==
    /\ state \in {"code_lines", "continue_msgs"}
         => code_line = Seed + NonRemoved(HeaderIdx + 1, diff_line)
    /\ \A k \in DOMAIN emitted :
         InBody(emitted[k])
           => emitted[k].cur = Seed + NonRemoved(HeaderIdx + 1, emitted[k].idx)

\* a removed line, then an annotated line, then a line without findings
C5_Witness ==
    \E i, j, k \in DOMAIN emitted :
        /\ i < j /\ j < k
        /\ emitted[i].kind = "removed"
        /\ IsAnnotation(emitted[j])
        /\ emitted[k].by = "code_lines" /\ emitted[k].kind = "line"

-----------------------------------------------------------------------------
(* C6, as stated: the header state consumes the diff line at index 3, and
   diff_top passes through only the lines at indices 0..2. *)
C6_HeaderAtIndex3 ==
    /\ (pc = "iter" /\ state = "header") => diff_line = 3
    /\ \A k \in DOMAIN emitted :
         /\ emitted[k].by = "header" => emitted[k].idx = 3
         /\ emitted[k].by = "diff_top" => emitted[k].idx \in 0..2

(* C6, amended: the header state consumes the diff line at index 4, matching
   it against the hunk-header pattern and seeding the Cursor from it; diff_top
   passes through, unmodified, the 4 lines at indices 0..3. *)
C6_HeaderAtIndex4 ==
    /\ (pc = "iter" /\ state = "header") => diff_line = 4
    /\ \A k \in DOMAIN emitted :
         /\ emitted[k].by = "header"
              => /\ k = 5
                 /\ emitted[k].idx = 4
                 /\ HEADER_PARSER(diff_lines[5]).matched
                 /\ PrintedVerbatim(k)
         /\ emitted[k].by = "diff_top" <=> k <= 4
         /\ emitted[k].by = "diff_top"
              => emitted[k].idx = k - 1 /\ PrintedVerbatim(k)
    /\ (Len(emitted) = 5 /\ pc = "iter")
         => code_line = int(HEADER_PARSER(diff_lines[5]).group1)

\* the header state has consumed its line and seeded the Cursor
C6_Witness ==
    /\ Len(emitted) = 5
    /\ emitted[5].by = "header"
    /\ code_line = 2

-----------------------------------------------------------------------------
IsHunkHeader(ln) == HEADER_PARSER(ln).matched

(* C7: every hunk header seeds the Cursor.  A content line that follows a
   hunk-header line, with only removed lines between them, is processed with
   the Cursor at the '+'-side start encoded in that header. *)
C7_EveryHunkSeeds ==
    \A k \in DOMAIN emitted :
        (/\ emitted[k].by = "code_lines"
         /\ emitted[k].kind # "removed"
         /\ ~IsHunkHeader(diff_lines[emitted[k].idx + 1]))
          => \A h \in HeaderIdx..(emitted[k].idx - 1) :
                 (/\ IsHunkHeader(diff_lines[h + 1])
                  /\ \A j \in (h + 1)..(emitted[k].idx - 1) :
                         IsRemoved(diff_lines[j + 1]))
                   => emitted[k].cur = int(HEADER_PARSER(diff_lines[h + 1]).group1)

-----------------------------------------------------------------------------
\* an item that shows diff text: every item but a continuation annotation
Textual(n) == ~(n.by = "continue_msgs" /\ IsAnnotation(n))

\* the diff lines the walk has produced an item for
Consumed == diff_line + (IF state = "continue_msgs" THEN 1 ELSE 0)

FirstAnnotations ==
    { k \in DOMAIN emitted : emitted[k].by = "code_lines" /\ IsAnnotation(emitted[k]) }

Annotations == { k \in DOMAIN emitted : IsAnnotation(emitted[k]) }

(* C8: each diff line is emitted exactly once.  The items that show diff text
   are, in order, one per diff line processed so far: the line unmodified, or
   the first annotation of a line with findings, whose text column shows the
   line; every further annotation of that line has a blank text column.  So
   the number of items is the number of lines processed plus the findings
   emitted minus the lines that had a finding emitted, and a walk that ends
   has processed every line. *)
C8_EachLineOnce ==
    LET shown == SelectSeq(emitted, Textual)
    IN  /\ Len(shown) = Consumed
        /\ \A j \in DOMAIN shown : shown[j].idx = j - 1
        /\ \A k \in DOMAIN emitted :
             /\ ~IsAnnotation(emitted[k]) => PrintedVerbatim(k)
             /\ k \in FirstAnnotations
                  => /\ PrintedAnnotation(k)
                     /\ ShowsText(TextColumn(stdout[k], emitted[k].msg,
                                             ColorOf(emitted[k])),
                                  diff_lines[emitted[k].idx + 1])
             /\ ~Textual(emitted[k])
                  => /\ k > 1
                     /\ IsAnnotation(emitted[k - 1])
                     /\ emitted[k - 1].idx = emitted[k].idx
                     /\ PrintedAnnotation(k)
                     /\ TextColumn(stdout[k], emitted[k].msg, ColorOf(emitted[k]))
                          = [c \in 1..PaneWidth |-> " "]
        /\ Len(stdout) = Consumed + Cardinality(Annotations)
                                   - Cardinality(FirstAnnotations)
        /\ pc = "done" => Consumed = Len(diff_lines)

\* a finished walk in which one line got a first and a further annotation
C8_Witness ==
    /\ pc = "done"
    /\ FirstAnnotations # {}
    /\ Annotations # FirstAnnotations

-----------------------------------------------------------------------------
\* the header state is about to consume a line that is no hunk header
MalformedHeaderNext ==
    /\ pc = "iter"
    /\ state = "header"
    /\ diff_line < Len(diff_lines)
    /\ ~IsHunkHeader(diff_lines[diff_line + 1])

(* C9: a malformed hunk header is fatal.  The step that consumes it in the
   header state aborts the run and leaves the output, the pointer, the
   Cursor, the dispatch state and both stores as they were; nothing is
   emitted after an abort, and what was emitted before it is the diff up to
   that line. *)
C9_MalformedHeaderFatal ==
    /\ [][MalformedHeaderNext
            => /\ pc' = "aborted"
               /\ UNCHANGED << stdout, emitted, diff_line, code_line, state,
                               pep8, pyflakes >>]_vars
    /\ [][pc = "aborted" => UNCHANGED << pc, stdout, emitted >>]_vars
    /\ [](state \in {"code_lines", "continue_msgs"}
            => IsHunkHeader(diff_lines[HeaderIdx + 1]))
    /\ []((pc = "aborted" /\ state = "header")
            => /\ stdout = SubSeq(diff_lines, 1, diff_line)
               /\ ~IsHunkHeader(diff_lines[diff_line + 1]))

\* the run aborted in the header state with the lines before it printed
C9_Witness ==
    /\ pc = "aborted"
    /\ state = "header"
    /\ stdout = Preamble

-----------------------------------------------------------------------------
\* ln holds ":<digits>:" somewhere
HasLineNo(ln) ==
    LET colons == { i \in 1..Len(ln) : ln[i] = ":" }
    IN  \E i, j \in colons :
            /\ i + 1 < j
            /\ \A k \in (i + 1)..(j - 1) : ln[k] \in Digit

\* some non-empty line of the output lacks ":<digits>:"
Malformed(output) ==
    LET lines == split(output, NL)
    IN  \E k \in DOMAIN lines : lines[k] # << >> /\ ~HasLineNo(lines[k])

(* C10: malformed checker output is fatal before any output.  When a
   non-empty line of either checker's output lacks ":<digits>:", the run
   never gets past the construction of that checker's store: the machine is
   never created and nothing is printed. *)
C10_MalformedCheckerFatal ==
    /\ (Malformed(pep8_stdout) \/ Malformed(pyflakes_stdout))
         => /\ pc \in {"pep8_output", "pyflakes_output", "aborted"}
            /\ ~Constructed
            /\ stdout = << >>
    /\ Malformed(pep8_stdout) => pc \in {"pep8_output", "aborted"}

\* pep8's store was built, then pyflakes' malformed output aborted the run
C10_Witness ==
    /\ pc = "aborted"
    /\ ~Malformed(pep8_stdout)
    /\ pep8 # EmptyStore
    /\ Malformed(pyflakes_stdout)

-----------------------------------------------------------------------------
\* the number under which a well-formed line is to be stored: the digits of
\* its leftmost ":<digits>:"
FirstNumber(ln) ==
    LET colons == { i \in 1..Len(ln) : ln[i] = ":" }
        pairs == { p \in colons \X colons :
                     /\ p[1] + 1 < p[2]
                     /\ \A k \in (p[1] + 1)..(p[2] - 1) : ln[k] \in Digit }
        first == CHOOSE p \in pairs :
                     \A q \in pairs : p[1] < q[1] \/ (p[1] = q[1] /\ p[2] <= q[2])
    IN  int(SubSeq(ln, first[1] + 1, first[2] - 1))

\* the number of findings a store holds
RECURSIVE TotalOver(_, _)
TotalOver(store, keys) ==
    IF keys = {} THEN 0
    ELSE LET k == CHOOSE k \in keys : TRUE
         IN  Len(store[k]) + TotalOver(store, keys \ {k})

Total(store) == TotalOver(store, DOMAIN store)

\* store is what the claim says parsing `output` yields
ParsedFrom(store, output) ==
    LET lines == split(output, NL)
        found == { k \in DOMAIN lines : lines[k] # << >> }
    IN  /\ \A k \in found : HasLineNo(lines[k])
        /\ Total(store) = Cardinality(found)
        /\ DOMAIN store = { FirstNumber(lines[k]) : k \in found }
        /\ \A L \in DOMAIN store :
             /\ store[L] # << >>
             /\ \A j \in DOMAIN store[L] :
                  \E k \in found : store[L][j] = lines[k] /\ FirstNumber(lines[k]) = L
        /\ found = {} => store = EmptyStore

(* C11: Finding Store parse.  Right after a checker's output is parsed, its
   store holds as many findings as the output has non-empty lines, each the
   whole line under the number of the line's first ":<digits>:", every key
   with a non-empty queue, and an empty mapping for empty output.  During the
   walk a Cursor value that is no key of a store means no finding: the line is
   printed unmodified and the run does not abort for it. *)
C11_StoreParse ==
    /\ pc = "pyflakes_output" => ParsedFrom(pep8, pep8_stdout)
    /\ pc = "diff_output"
         => ParsedFrom(pep8, pep8_stdout) /\ ParsedFrom(pyflakes, pyflakes_stdout)
    /\ \A k \in DOMAIN emitted :
         (/\ emitted[k].by = "code_lines"
          /\ emitted[k].cur \notin DOMAIN pep8 \cup DOMAIN pyflakes)
           => PrintedVerbatim(k)
    /\ (pc = "aborted" /\ Constructed)
         => state = "header" \/ diff_line = Len(diff_lines)

\* two findings of one line number were parsed, and the walk then met a line
\* whose number is in neither store
C11_Witness ==
    /\ \E L \in DOMAIN pep8 : Len(pep8[L]) = 2
    /\ \E k \in DOMAIN emitted :
         /\ emitted[k].by = "code_lines"
         /\ emitted[k].kind = "line"
         /\ emitted[k].cur \notin DOMAIN pep8 \cup DOMAIN pyflakes

-----------------------------------------------------------------------------
\* what is left to do: raw lines not yet passed and findings not yet removed
Remaining == (Len(diff_lines) - diff_line) + Total(pep8) + Total(pyflakes)

\* the findings the two checkers reported
Findings ==
    LET p == split(pep8_stdout, NL)
        f == split(pyflakes_stdout, NL)
    IN  Cardinality({ k \in DOMAIN p : p[k] # << >> })
          + Cardinality({ k \in DOMAIN f : f[k] # << >> })

\* a pull that yielded an item
Yielded == pc = "iter" /\ stdout' # stdout

C12_Pull ==
    /\ Yielded => \/ diff_line' > diff_line /\ Remaining' < Remaining
                  \/ /\ diff_line' = diff_line
                     /\ Total(pep8') + Total(pyflakes')
                          = Total(pep8) + Total(pyflakes) - 1
    /\ (pc = "iter" /\ pc' = "done") => diff_line = Len(diff_lines)
    /\ (pc = "iter" /\ diff_line < Len(diff_lines))
         => Yielded \/ pc' = "aborted"
    /\ (pc = "iter" /\ diff_line >= Len(diff_lines)) => pc' = "done"
    /\ pc \in {"done", "aborted"} => UNCHANGED vars

C12_Bound ==
    Constructed => /\ diff_line <= Len(diff_lines)
                   /\ Len(stdout) <= Len(diff_lines) + Findings
                   /\ Len(stdout) + Remaining <= Len(diff_lines) + Findings

(* C12: Termination of the walk.  Every pull that yields an item either moves
   the raw-line pointer forward or removes exactly one finding, so what
   remains to do shrinks with every item; production goes on while the
   pointer is before the end and stops when it reaches the end; the number of
   items never exceeds the number of diff lines plus the number of findings.
   What remains is a natural number, so no run pulls for ever. *)
C12_Terminates ==
    /\ [][C12_Pull]_vars
    /\ [](C12_Bound)

\* a finished run that printed both findings of one line: one item more than
\* the diff has lines
C12_Witness ==
    /\ pc = "done"
    /\ Findings = 2
    /\ Total(pep8) + Total(pyflakes) = 0
    /\ Len(stdout) = Len(diff_lines) + 1

-----------------------------------------------------------------------------
(* C13: Reference reaches the diff provider.  The command diff_output runs
   names the reference it was given, as it names the filename. *)
C13_RefReachesGit ==
    (call.fn = "diff_output" /\ call.returned)
       => /\ \E i \in DOMAIN call.argv : call.argv[i] = call.filename
          /\ \E i \in DOMAIN call.argv : call.argv[i] = call.ref

-----------------------------------------------------------------------------
(* C14: No read past the end of the diff.  No handler reads the current line
   with the raw-line pointer at or beyond the end of the diff: no run is
   ended by the IndexError of such a read, in particular not the pull in
   which continue_msgs finds no finding left for the last diff line, advances
   and goes on with code_lines. *)
C14_NoReadPastEnd ==
    ~(/\ pc = "aborted"
      /\ Constructed
      /\ state = "code_lines"
      /\ diff_line >= Len(diff_lines))

-----------------------------------------------------------------------------
\* the machine as continue_msgs leaves it to code_lines when no finding is
\* left for the current line
Advanced ==
    [Self EXCEPT !.diff_line = @ + 1, !.code_line = @ + 1, !.state = "code_lines"]

C15_Pull ==
    Pulling("continue_msgs")
      => /\ Len(stdout') = Len(stdout) + 1
         /\ (Get(pyflakes, code_line) = << >> /\ Get(pep8, code_line) = << >>)
              => /\ stdout' = Append(stdout, code_lines(Advanced).ret)
                 /\ diff_line' = code_lines(Advanced).self.diff_line
                 /\ code_line' = code_lines(Advanced).self.code_line
                 /\ state' = code_lines(Advanced).self.state

(* C15: No empty tick.  Every pull made in continue_msgs yields exactly one
   item; when no finding is left for the current line, that same pull moves
   pointer and Cursor on by one, switches to code_lines and yields what
   code_lines produces for the new current line. *)
C15_NoEmptyTick == [][C15_Pull]_vars

-----------------------------------------------------------------------------
\* the changes of self.state the handlers make
Transitions ==
    { << "diff_top", "header" >>, << "header", "code_lines" >>,
      << "code_lines", "continue_msgs" >>, << "continue_msgs", "code_lines" >> }

\* the handlers that ran, in order, are a path of Transitions
HandlersInOrder ==
    \A k \in DOMAIN emitted :
        k > 1 => \/ emitted[k].by = emitted[k - 1].by
                 \/ << emitted[k - 1].by, emitted[k].by >> \in Transitions

\* this pull ran code_lines (directly or from continue_msgs) and code_lines
\* switched to continue_msgs
EntersContinueMsgs ==
    /\ Yielded
    /\ state' = "continue_msgs"
    /\ emitted'[Len(emitted')].by = "code_lines"

\* this pull took msg from the head of the queue of key in exactly one store
PoppedFrom(store, key, msg) ==
    /\ key \in DOMAIN store
    /\ store[key] # << >>
    /\ store[key][1] = msg
    /\ store' = [store EXCEPT ![key] = Tail(@)]

Popped(key, msg) ==
    \/ PoppedFrom(pyflakes, key, msg) /\ pep8' = pep8
    \/ PoppedFrom(pep8, key, msg) /\ pyflakes' = pyflakes

C16_Change ==
    /\ (state' # state /\ state # "none") => << state, state' >> \in Transitions
    /\ state' = "continue_msgs" => state \in {"code_lines", "continue_msgs"}
    /\ EntersContinueMsgs
         => LET n == emitted'[Len(emitted')]
            IN  /\ IsAnnotation(n)
                /\ n.key = code_line'
                /\ Popped(n.key, n.msg)

(* C16 as stated: header is entered exactly once in every run. *)
C16_HeaderExactlyOnce ==
    /\ HandlersInOrder
    /\ Cardinality(HeaderNotes) <= 1
    /\ pc = "done" => state \in {"header", "code_lines", "continue_msgs"}

(* C16: Allowed state transitions.  The state changes only along
   diff_top -> header -> code_lines <-> continue_msgs; header is entered only
   from diff_top and at most once, exactly once when the diff has at least 4
   lines, and not at all when it has fewer; diff_top and header are not
   entered again once left; continue_msgs is entered only by code_lines, in a
   step that removed a finding of the current Cursor. *)
C16_Transitions ==
    /\ [][C16_Change]_vars
    /\ [](HandlersInOrder /\ Cardinality(HeaderNotes) <= 1)
    /\ [](pc = "done"
            => (state = "diff_top" <=> Len(diff_lines) < 4))

\* a finished run that went through all four states and back to code_lines
C16_Witness ==
    /\ pc = "done"
    /\ state = "code_lines"
    /\ \E k \in DOMAIN emitted : emitted[k].by = "continue_msgs"
    /\ \E k \in DOMAIN emitted :
         /\ k > 1
         /\ emitted[k].by = "code_lines"
         /\ emitted[k - 1].by = "continue_msgs"

-----------------------------------------------------------------------------
Pending(L) == Get(pyflakes, L) # << >> \/ Get(pep8, L) # << >>

\* the pull is about to hand the removed line at index i to code_lines
AtRemoved(i) == i < Len(diff_lines) /\ IsRemoved(diff_lines[i + 1])

\* code_lines passes the removed line at index i through and moves only the pointer
PassesRemoved(i) ==
    /\ stdout' = Append(stdout, diff_lines[i + 1])
    /\ emitted'[Len(emitted')].kind = "removed"
    /\ diff_line' = i + 1
    /\ pep8' = pep8
    /\ pyflakes' = pyflakes
    /\ state' = "code_lines"

C17_Pull ==
    /\ (Pulling("code_lines") /\ AtRemoved(diff_line))
         => PassesRemoved(diff_line) /\ code_line' = code_line
    /\ (Pulling("continue_msgs") /\ ~Pending(code_line) /\ AtRemoved(diff_line + 1))
         => PassesRemoved(diff_line + 1) /\ code_line' = code_line + 1
    /\ (/\ Pulling("code_lines")
        /\ ~AtRemoved(diff_line)
        /\ Pending(code_line)
        /\ emitted # << >>
        /\ emitted[Len(emitted)].kind = "removed")
         => /\ Yielded
            /\ IsAnnotation(emitted'[Len(emitted')])
            /\ emitted'[Len(emitted')].key = code_line
            /\ emitted'[Len(emitted')].idx = diff_line

(* C17: Removed lines never carry annotations.  While the current diff line
   is a removed line, the step prints it unmodified, advances only the
   raw-line pointer, removes no finding even if findings are pending for the
   Cursor, and stays in code_lines; the pending findings are printed with the
   next line that is not a removed line. *)
C17_RemovedPassThrough == [][C17_Pull]_vars

\* a removed line was passed through while a finding was pending for the
\* Cursor, and the finding was printed with the next line
C17_Witness ==
    \E k \in DOMAIN emitted :
        /\ k > 1
        /\ emitted[k - 1].kind = "removed"
        /\ IsAnnotation(emitted[k])
        /\ emitted[k].key = emitted[k - 1].cur
        /\ emitted[k].idx = emitted[k - 1].idx + 1

-----------------------------------------------------------------------------
C18_Pull ==
    pc = "iter"
      => /\ DOMAIN pep8' = DOMAIN pep8
         /\ DOMAIN pyflakes' = DOMAIN pyflakes
         /\ ~Yielded => pep8' = pep8 /\ pyflakes' = pyflakes
         /\ Yielded
              => LET n == emitted'[Len(emitted')]
                 IN  IF IsAnnotation(n)
                     THEN /\ n.key = n.cur
                          /\ n.cur = code_line'
                          /\ Popped(n.key, n.msg)
                          /\ Total(pep8') + Total(pyflakes')
                               = Total(pep8) + Total(pyflakes) - 1
                     ELSE pep8' = pep8 /\ pyflakes' = pyflakes

(* C18: Stores only shrink.  During the walk a step removes at most one
   finding in total, and then the head of the queue at the current Cursor's
   key, from exactly one store; it never adds, reorders or moves findings.  A
   step that removes from one store leaves the other unchanged, and a step
   that prints a line unmodified leaves both unchanged. *)
C18_StoresOnlyShrink == [][C18_Pull]_vars

\* an error was just removed from pyflakes while pep8 holds a warning for the
\* same line
C18_Witness ==
    /\ pc = "iter"
    /\ emitted # << >>
    /\ emitted[Len(emitted)].kind = "error"
    /\ Get(pep8, emitted[Len(emitted)].key) # << >>
    /\ Total(pyflakes) + Total(pep8) = 1

-----------------------------------------------------------------------------
\* the Cursor values held while a line that is not a removed line was handled
Visited ==
    { emitted[k].cur : k \in { j \in DOMAIN emitted :
                                 /\ emitted[j].by \in {"code_lines", "continue_msgs"}
                                 /\ emitted[j].kind # "removed" } }

C19_Advance ==
    /\ (pc = "iter" /\ state \in {"code_lines", "continue_msgs"})
         => /\ code_line' >= code_line
            /\ \A L \in code_line..(code_line' - 1) :
                 /\ ~Pending(L)
                 /\ Get(pyflakes', L) = << >>
                 /\ Get(pep8', L) = << >>
    /\ (pc = "iter" /\ diff_line >= Len(diff_lines))
         => pc' = "done" /\ pep8' = pep8 /\ pyflakes' = pyflakes

C19_Aligned ==
    /\ \A k \in DOMAIN emitted :
         IsAnnotation(emitted[k])
           => /\ emitted[k].key = emitted[k].cur
              /\ FirstNumber(emitted[k].msg) = emitted[k].cur
              /\ emitted[k].cur \in Visited
    /\ pc = "done"
         => \A L \in DOMAIN pep8 \cup DOMAIN pyflakes :
               Pending(L) => L \notin Visited

(* C19: Annotations aligned to the Cursor.  The annotation of a finding
   stored under line number L is printed only while the Cursor is L; whenever
   the Cursor advances past L neither store has a finding pending for L; a
   finding whose line number the Cursor never holds on a line that is not a
   removed line is never printed, stays in its store, and the run ends
   without an error for it. *)
C19_CursorAligned ==
    /\ [][C19_Advance]_vars
    /\ [](C19_Aligned)

\* a finished run that printed the finding of line 2 at Cursor 2 and left the
\* finding of line 3 in its store: the Cursor was 3 on a removed line only
C19_Witness ==
    /\ pc = "done"
    /\ \E k \in DOMAIN emitted : IsAnnotation(emitted[k]) /\ emitted[k].cur = 2
    /\ Pending(3)
    /\ code_line = 3
    /\ emitted[Len(emitted)].kind = "removed"

-----------------------------------------------------------------------------
\* 5 for every ESC[3, 3 for every ESC[m, -6 for every tab of the whole text
Adjustment(text) ==
    LET at(i, c) == i <= Len(text) /\ text[i] = c
        colours == { i \in DOMAIN text : at(i, ESC) /\ at(i + 1, "[") /\ at(i + 2, "3") }
        resets == { i \in DOMAIN text : at(i, ESC) /\ at(i + 1, "[") /\ at(i + 2, "m") }
        tabs == { i \in DOMAIN text : at(i, TAB) }
    IN  5 * Cardinality(colours) + 3 * Cardinality(resets) - 6 * Cardinality(tabs)

Returned == call.fn = "two_pane" /\ call.returned

\* the text column of the returned item
Column == TextColumn(call.ret, call.msg, COLORS(call.color))

Shown == IF Len(call.text) < TruncateAt THEN Len(call.text) ELSE TruncateAt

(* C20 as stated: the text column is always exactly 80 + adjustment wide. *)
C20_WidthExactly ==
    Returned
      => /\ Carries(call.ret, call.msg, COLORS(call.color))
         /\ ShowsText(Column, call.text)
         /\ Len(Column) = PaneWidth + Adjustment(call.text)

(* C20: Formatter column width.  The text column of two_pane, everything
   before the single space that separates it from the colour block, is the
   first 70 characters of text followed by spaces up to a width of 80 +
   adjustment, the adjustment being 5 for every ESC[3, 3 for every ESC[m and
   -6 for every tab of the whole text; when 80 + adjustment is less than the
   number of characters shown, no space is added and nothing more is cut, so
   the column is then as wide as the characters shown. *)
C20_ColumnWidth ==
    Returned
      => /\ Carries(call.ret, call.msg, COLORS(call.color))
         /\ ShowsText(Column, call.text)
         /\ Len(Column) = IF PaneWidth + Adjustment(call.text) > Shown
                          THEN PaneWidth + Adjustment(call.text)
                          ELSE Shown

\* a text of more than 70 characters was formatted whose tabs bring
\* 80 + adjustment below the 70 characters shown
C20_Witness ==
    /\ Returned
    /\ Len(call.text) > TruncateAt
    /\ PaneWidth + Adjustment(call.text) < TruncateAt
    /\ Len(Column) = TruncateAt
    /\ call.msg # << >>

====
